---- MODULE Spec2Model ----
(***************************************************************************)
(* Model of goodwe/protocol.py: the UDP and TCP inverter sessions          *)
(* (UdpInverterProtocol, TcpInverterProtocol), ProtocolCommand.execute     *)
(* and the legacy AA55 framing (Aa55ProtocolCommand).                      *)
(*                                                                         *)
(* Scheduling is asyncio's: one event loop, every callback and every       *)
(* stretch of a coroutine between two awaits runs to completion, so each   *)
(* action below is one callback or one such stretch.                       *)
(***************************************************************************)
EXTENDS Integers, Sequences, FiniteSets, TLC

\* Largest configured `retries` the sessions are checked with.
MaxRetries == 2
\* Number of execute() calls the caller makes on one session.
MaxRequests == 2
\* Most timers (loop.call_later handles) outstanding at once.
MaxTimers == 3

VARIABLES
    retries,        \* InverterProtocol.retries
    \* ---- UdpInverterProtocol ----
    udpPc,          \* where the caller's execute()/send_request() coroutine is
    udpTransport,   \* self._transport: "none" (None), "open", "closing"
    udpEndpoint,    \* the transport create_datagram_endpoint is handing over
    udpRetry,       \* self._retry
    udpFuture,      \* state of self.response_future ("none" when None)
    udpFutReq,      \* the request self.response_future was created for
    udpCommand,     \* self.command (0 when None), commands named by request
    udpTimers,      \* outstanding call_later(_retry_mechanism), by arming request
    udpReq,         \* number of the caller's current request (0: none yet)
    udpSent,        \* datagrams transmitted for the current request
    udpOutcome,     \* how the last execute() ended
    udpAcceptAt,    \* the command's validator accepts the udpAcceptAt-th
                    \* datagram it is given and returns False for the others
                    \* (0: it accepts none)
    udpRecvd,       \* validator verdicts on the datagrams of the current request
    udpFired,       \* timer firings that found the current request pending
    udpEnvErr,      \* error_received / socket failure seen by the current request
    udpDisplaced,   \* callers awaiting a pending future that self.response_future
                    \* no longer refers to
    \* ---- TcpInverterProtocol ----
    tcpPc,          \* where the caller's execute()/send_request() coroutine is
    tcpTransport,   \* self._transport: "none" (None), "open", "closing"
    tcpRetry,       \* self._retry
    tcpFuture,      \* state of self.response_future ("none" when None)
    tcpFutCall,     \* the call self.response_future was created for
    tcpCommand,     \* self.command (0 when None), commands named by call
    tcpTimers,      \* outstanding call_later(_timeout_mechanism), by arming call
    tcpCall,        \* number of the caller's current execute() call
    tcpAttempts,    \* send_request invocations (connect+send attempts) of the call
    tcpOutcome,     \* how the last execute() ended
    tcpPrevOutcome, \* how the execute() before it ended
    tcpOnlyRefused, \* every failed attempt of the call was a refused connect
    tcpRetryAtAccept, \* self._retry when the last accepted response arrived
    tcpInvalidState, \* a callback resolved a future that was already done
    \* ---- Aa55ProtocolCommand ----
    frStage,        \* what was built or checked last
    frPayload,      \* payload bytes of the request being built
    frRequest,      \* Aa55ProtocolCommand.request, or the error building it
    frResponse,     \* response bytes handed to the validator
    frExpected,     \* response_type the command expects (hex string)
    frValid,        \* what _validate_response returned
    \* ---- ProtocolResponse ----
    rsStage,        \* what was done to the response last
    rsFraming,      \* class of self.command: "aa55", "modbus", "none" (no command)
    rsFirst,        \* self.command.first_address (Modbus commands)
    rsRaw,          \* self.raw_data
    rsBytes,        \* contents of self._bytes (io.BytesIO)
    rsPos,          \* cursor of self._bytes
    rsAddress,      \* argument of the last seek
    rsSize,         \* argument of the last read
    rsRead          \* bytes the last read returned

udpVars == <<udpPc, udpTransport, udpEndpoint, udpRetry, udpFuture, udpFutReq,
             udpCommand, udpTimers, udpReq, udpSent, udpOutcome, udpAcceptAt,
             udpRecvd, udpFired, udpEnvErr, udpDisplaced>>

tcpVars == <<tcpPc, tcpTransport, tcpRetry, tcpFuture, tcpFutCall, tcpCommand,
             tcpTimers, tcpCall, tcpAttempts, tcpOutcome, tcpPrevOutcome,
             tcpOnlyRefused, tcpRetryAtAccept, tcpInvalidState>>

frVars == <<frStage, frPayload, frRequest, frResponse, frExpected, frValid>>

rsVars == <<rsStage, rsFraming, rsFirst, rsRaw, rsBytes, rsPos, rsAddress,
            rsSize, rsRead>>

vars == <<retries, udpVars, tcpVars, frVars, rsVars>>

\* asyncio.Future states, with the exception it carries when it failed.
FutureStates == {"none", "pending", "result", "rejected", "refused",
                 "oserror", "maxretries", "cancelled"}

\* What the validator does with received bytes: returns True, returns False,
\* or raises RequestRejectedException.
Verdicts == {"accept", "false", "nak"}

\* Errors a socket reports: ConnectionRefusedError or any other OSError.
SocketErrors == {"refused", "oserror"}

Done(f) == f \notin {"none", "pending"}

(***************************************************************************)
(* ProtocolCommand.execute: what the caller sees for a finished future.    *)
(***************************************************************************)
ExecuteOutcome(f) ==
    CASE f = "result"     -> "Response"
      [] f = "cancelled"  -> "RequestFailed"
      [] f = "refused"    -> "RequestFailed"
      [] f = "rejected"   -> "RequestRejected"
      [] f = "maxretries" -> "MaxRetriesExceeded"
      [] OTHER            -> "OSError"

\* execute() when send_request itself raised a socket error.
ExecuteRaised(e) ==
    IF e = "refused" THEN "RequestFailed" ELSE "OSError"

(***************************************************************************)
(* UdpInverterProtocol                                                     *)
(***************************************************************************)

\* Future.cancel() as _close_transport uses it: only a pending future changes.
CancelIfPending(f) == IF f = "pending" THEN "cancelled" ELSE f

\* A _close_transport that closes the socket and leaves the future alone.
UdpCloseTransport_NoCancel(f) ==
    /\ udpTransport' = "none"
    /\ udpEndpoint' = IF udpTransport # "none" /\ udpEndpoint = "open"
                      THEN "closed" ELSE udpEndpoint
    /\ udpFuture' = f

\* _close_transport, run when the future is in state f (the state the
\* handler's earlier statements left it in).
UdpCloseTransport(f) ==
    /\ udpTransport' = "none"
    /\ udpEndpoint' = IF udpTransport # "none" /\ udpEndpoint = "open"
                      THEN "closed" ELSE udpEndpoint
    /\ udpFuture' = CancelIfPending(f)

\* _send_request(command, response_future): a datagram leaves only through an
\* open transport (sendto on a closed one is dropped by asyncio).
UdpSendRequest(cmd, req, transport, timers) ==
    /\ udpCommand' = cmd
    /\ udpFutReq' = req
    /\ udpSent' = IF transport = "open" THEN udpSent + 1 ELSE udpSent
    /\ udpTimers' = Append(timers, req)

\* execute() -> send_request() -> _connect(): a closed transport is reopened,
\* which suspends the coroutine in create_datagram_endpoint.
UdpSendRequestStart ==
    /\ udpPc = "idle"
    /\ udpReq < MaxRequests
    /\ udpReq' = udpReq + 1
    /\ udpOutcome' = "none"
    /\ udpAcceptAt' \in 0..(MaxRetries + 1)
    /\ udpRecvd' = <<>>
    /\ udpFired' = 0
    /\ udpEnvErr' = FALSE
    /\ IF udpTransport = "open"
       THEN /\ udpPc' = "awaiting"
            /\ udpFuture' = "pending"
            /\ udpRetry' = 0
            /\ udpSent' = 1
            /\ udpCommand' = udpReq + 1
            /\ udpFutReq' = udpReq + 1
            /\ udpTimers' = Append(udpTimers, udpReq + 1)
            /\ UNCHANGED <<udpTransport, udpEndpoint>>
       ELSE /\ udpPc' = "connecting"
            /\ udpSent' = 0
            /\ UNCHANGED <<udpTransport, udpEndpoint, udpRetry, udpFuture,
                           udpFutReq, udpCommand, udpTimers>>
    /\ UNCHANGED <<retries, rsVars, tcpVars, frVars, udpDisplaced>>

\* create_datagram_endpoint raises: send_request and execute pass it on.
UdpConnectFail(e) ==
    /\ udpPc = "connecting"
    /\ udpPc' = "idle"
    /\ udpOutcome' = ExecuteRaised(e)
    /\ UNCHANGED <<retries, rsVars, tcpVars, frVars, udpDisplaced, udpTransport, udpEndpoint, udpRetry, udpFuture,
                   udpFutReq, udpCommand, udpTimers, udpReq, udpSent,
                   udpAcceptAt, udpRecvd, udpFired, udpEnvErr>>

\* connection_made: called by the loop before the coroutine is resumed.
UdpConnectionMade ==
    /\ udpPc = "connecting"
    /\ udpPc' = "connected"
    /\ udpTransport' = "open"
    /\ udpEndpoint' = "open"
    /\ UNCHANGED <<retries, rsVars, tcpVars, frVars, udpDisplaced, udpRetry, udpFuture, udpFutReq, udpCommand,
                   udpTimers, udpReq, udpSent, udpOutcome, udpAcceptAt,
                   udpRecvd, udpFired, udpEnvErr>>

\* send_request resumed after `await self._connect()`: _connect stores the
\* transport it was handed, then the future is created and the request sent.
UdpSendRequestResume ==
    /\ udpPc = "connected"
    /\ udpPc' = "awaiting"
    /\ udpTransport' = IF udpEndpoint = "open" THEN "open" ELSE "closing"
    /\ udpEndpoint' = "none"
    /\ udpFuture' = "pending"
    /\ udpRetry' = 0
    /\ UdpSendRequest(udpReq, udpReq, udpTransport', udpTimers)
    /\ UNCHANGED <<retries, rsVars, tcpVars, frVars, udpDisplaced, udpReq, udpOutcome, udpAcceptAt, udpRecvd, udpFired,
                   udpEnvErr>>

\* self.command.validator(data) for the next datagram: the inverter answers
\* with a frame the validator accepts or finds malformed, or with a NAK.
UdpValidator(v) ==
    \/ v = "nak"
    \/ v = (IF Len(udpRecvd) + 1 = udpAcceptAt THEN "accept" ELSE "false")

\* datagram_received(data): v is what self.command.validator(data) does.
UdpDatagramReceived(v) ==
    /\ udpTransport = "open"
    /\ udpPc = "awaiting"
    /\ Len(udpRecvd) < udpSent
    /\ UdpValidator(v)
    /\ udpRecvd' = Append(udpRecvd, v)
    /\ CASE v = "accept" ->
              /\ UdpCloseTransport(IF udpFuture = "pending" THEN "result"
                                   ELSE udpFuture)
              /\ UNCHANGED <<udpRetry, udpCommand, udpFutReq, udpSent, udpTimers>>
         [] v = "nak" ->
              /\ UdpCloseTransport(IF udpFuture = "pending" THEN "rejected"
                                   ELSE udpFuture)
              /\ UNCHANGED <<udpRetry, udpCommand, udpFutReq, udpSent, udpTimers>>
         [] OTHER ->
              /\ udpRetry' = udpRetry + 1
              /\ UdpSendRequest(udpCommand, udpFutReq, udpTransport, udpTimers)
              /\ UdpCloseTransport(udpFuture)
    /\ UNCHANGED <<retries, rsVars, tcpVars, frVars, udpDisplaced, udpPc, udpReq, udpOutcome, udpAcceptAt, udpFired,
                   udpEnvErr>>

\* error_received(exc)
UdpErrorReceived(e) ==
    /\ udpTransport = "open"
    /\ udpPc = "awaiting"
    /\ udpSent > 0
    /\ udpEnvErr' = TRUE
    /\ UdpCloseTransport(IF udpFuture = "pending" THEN e ELSE udpFuture)
    /\ UNCHANGED <<retries, rsVars, tcpVars, frVars, udpDisplaced, udpPc, udpRetry, udpFutReq, udpCommand, udpTimers,
                   udpReq, udpSent, udpOutcome, udpAcceptAt, udpRecvd, udpFired>>

\* connection_lost(exc): the socket failed (transport still open), or the loop
\* reports the close of a transport that was closed while being handed over.
UdpConnectionLost ==
    /\ udpTransport \in {"open", "closing"}
    /\ udpPc = "awaiting"
    /\ udpEnvErr' = (udpEnvErr \/ udpTransport = "open")
    /\ UdpCloseTransport(udpFuture)
    /\ UNCHANGED <<retries, rsVars, tcpVars, frVars, udpDisplaced, udpPc, udpRetry, udpFutReq, udpCommand, udpTimers,
                   udpReq, udpSent, udpOutcome, udpAcceptAt, udpRecvd, udpFired>>

\* A _retry_mechanism that only logs when the retries are used up.
UdpGiveUp_LogOnly ==
    /\ udpTimers' = Tail(udpTimers)
    /\ udpFired' = udpFired + 1
    /\ UNCHANGED <<udpTransport, udpEndpoint, udpFuture, udpRetry, udpCommand,
                   udpFutReq, udpSent>>

\* _retry_mechanism, no retries left: fail the future with MaxRetriesException
\* and close the transport.
UdpGiveUp ==
    /\ UdpCloseTransport("maxretries")
    /\ udpTimers' = Tail(udpTimers)
    /\ udpFired' = udpFired + 1
    /\ UNCHANGED <<udpRetry, udpCommand, udpFutReq, udpSent>>

\* _retry_mechanism: the callback of the oldest outstanding timer.
UdpRetryMechanism ==
    /\ udpTimers # <<>>
    /\ IF Done(udpFuture)
       THEN /\ UdpCloseTransport(udpFuture)
            /\ udpTimers' = Tail(udpTimers)
            /\ UNCHANGED <<udpRetry, udpCommand, udpFutReq, udpSent, udpFired>>
       ELSE IF udpRetry < retries
       THEN /\ udpRetry' = udpRetry + 1
            /\ UdpSendRequest(udpCommand, udpFutReq, udpTransport, Tail(udpTimers))
            /\ udpFired' = udpFired + 1
            /\ UNCHANGED <<udpTransport, udpEndpoint, udpFuture>>
       ELSE UdpGiveUp
    /\ UNCHANGED <<retries, rsVars, tcpVars, frVars, udpDisplaced, udpPc, udpReq, udpOutcome, udpAcceptAt, udpRecvd,
                   udpEnvErr>>

\* `await response_future` ends; send_request returns and execute turns the
\* future into a Response or an error.
UdpExecuteReturn ==
    /\ udpPc = "awaiting"
    /\ Done(udpFuture)
    /\ udpPc' = "idle"
    /\ udpOutcome' = ExecuteOutcome(udpFuture)
    /\ UNCHANGED <<retries, rsVars, tcpVars, frVars, udpDisplaced, udpTransport, udpEndpoint, udpRetry, udpFuture,
                   udpFutReq, udpCommand, udpTimers, udpReq, udpSent,
                   udpAcceptAt, udpRecvd, udpFired, udpEnvErr>>

\* A second caller's execute() -> send_request() while the first caller is
\* suspended in `await response_future` on an open transport: _connect returns
\* at once, and the new future and command replace the session's (lines 78-80,
\* 86-87).  The first caller keeps awaiting its own future, which nothing
\* refers to any more.
UdpSendRequestOverlap ==
    /\ udpPc = "awaiting"
    /\ udpFuture = "pending"
    /\ udpTransport = "open"
    /\ udpReq < MaxRequests
    /\ udpReq' = udpReq + 1
    /\ udpDisplaced' = udpDisplaced + 1
    /\ udpFuture' = "pending"
    /\ udpRetry' = 0
    /\ udpCommand' = udpReq + 1
    /\ udpFutReq' = udpReq + 1
    /\ udpSent' = 1
    /\ udpTimers' = Append(udpTimers, udpReq + 1)
    /\ udpAcceptAt' \in 0..(MaxRetries + 1)
    /\ udpRecvd' = <<>>
    /\ udpFired' = 0
    /\ udpEnvErr' = FALSE
    /\ UNCHANGED <<retries, rsVars, tcpVars, frVars, udpPc, udpTransport,
                   udpEndpoint, udpOutcome>>

UdpInit ==
    /\ udpPc = "idle"
    /\ udpTransport = "none"
    /\ udpEndpoint = "none"
    /\ udpRetry = 0
    /\ udpFuture = "none"
    /\ udpFutReq = 0
    /\ udpCommand = 0
    /\ udpTimers = <<>>
    /\ udpReq = 0
    /\ udpSent = 0
    /\ udpOutcome = "none"
    /\ udpAcceptAt = 0
    /\ udpRecvd = <<>>
    /\ udpFired = 0
    /\ udpEnvErr = FALSE
    /\ udpDisplaced = 0

(***************************************************************************)
(* Aa55ProtocolCommand: legacy framing.  Bytes are numbers 0..255, hex      *)
(* strings are sequences of digits 0..15.                                  *)
(***************************************************************************)

\* Payload lengths and byte values the framing is exercised with: short
\* frames, and frames whose byte sum passes 2^15 and 2^16.
PayloadLens == {0, 1, 2, 128, 255}
FillBytes == {0, 1, 255}
Registers == {0, 65535}

Fill(n, b) == [i \in 1..n |-> b]

\* data[lo] + ... + data[hi], added up by halves (unbounded integers, so the
\* order of the additions does not matter)
RECURSIVE SumRange(_, _, _)
SumRange(data, lo, hi) ==
    IF lo > hi THEN 0
    ELSE IF lo = hi THEN data[lo]
    ELSE LET mid == (lo + hi) \div 2
         IN  SumRange(data, lo, mid) + SumRange(data, mid + 1, hi)

\* sum of the first n bytes, what the `for each in data: checksum += each`
\* loops compute
SumUpTo(data, n) == SumRange(data, 1, n)

SumBytes(data) == SumUpTo(data, Len(data))

\* "{:x}".format(n): the hex digits of n, most significant first
RECURSIVE HexDigits(_)
HexDigits(n) == IF n < 16 THEN <<n>> ELSE HexDigits(n \div 16) \o <<n % 16>>

\* "{:0Wx}".format(n): padded with zeros to at least `width` digits
FormatHex(n, width) ==
    LET d == HexDigits(n)
    IN  IF Len(d) >= width THEN d ELSE Fill(width - Len(d), 0) \o d

\* bytes.hex()
BytesToHex(data) ==
    [i \in 1..(2 * Len(data)) |->
        IF i % 2 = 1 THEN data[(i + 1) \div 2] \div 16 ELSE data[i \div 2] % 16]

\* bytes.fromhex(h) for a string of an even number of digits
BytesFromHex(h) ==
    [i \in 1..(Len(h) \div 2) |-> 16 * h[2 * i - 1] + h[2 * i]]

\* int(h, 16)
IntFromHex(h) ==
    LET RECURSIVE val(_)
        val(n) == IF n = 0 THEN 0 ELSE 16 * val(n - 1) + h[n]
    IN  val(Len(h))

\* int.from_bytes(<<hi, lo>>, byteorder="big", signed=True)
SignedFromBytes(hi, lo) ==
    LET v == 256 * hi + lo
    IN  IF v >= 32768 THEN v - 65536 ELSE v

\* "AA55C07F", the header of every request
RequestHeaderHex == <<10, 10, 5, 5, 12, 0, 7, 15>>

\* AA 55 7F C0, the header of every response
ResponseHeader == <<170, 85, 127, 192>>

\* _checksum(data): checksum.to_bytes(2, byteorder="big", signed=False), which
\* raises OverflowError for a sum that does not fit two bytes.
Checksum(data) ==
    LET checksum == SumBytes(data)
    IN  IF checksum < 65536
        THEN [err |-> "none", bytes |-> <<checksum \div 256, checksum % 256>>]
        ELSE [err |-> "OverflowError", bytes |-> <<>>]

\* Aa55ProtocolCommand.__init__: the request built from a payload hex string.
Aa55Request(payload) ==
    IF Len(payload) % 2 = 1
    THEN [err |-> "ValueError", bytes |-> <<>>]
    ELSE LET ck == Checksum(BytesFromHex(RequestHeaderHex \o payload))
         IN  IF ck.err # "none"
             THEN [err |-> ck.err, bytes |-> <<>>]
             ELSE [err |-> "none",
                   bytes |-> BytesFromHex(RequestHeaderHex \o payload
                                          \o BytesToHex(ck.bytes))]

\* _validate_response(data, response_type): "True", "False", or "IndexError"
\* when the length test fails on data too short to have a byte 6 for the
\* debug message.
ValidateResponse(data, response_type) ==
    IF Len(data) <= 8 \/ Len(data) # data[7] + 9
    THEN (IF Len(data) < 7 THEN "IndexError" ELSE "False")
    ELSE IF /\ response_type # <<>>
            /\ IntFromHex(response_type) # SignedFromBytes(data[5], data[6])
    THEN "False"
    ELSE IF SumUpTo(data, Len(data) - 2)
              # SignedFromBytes(data[Len(data) - 1], data[Len(data)])
    THEN "False"
    ELSE "True"

\* Payload hex strings of the three legacy commands.
Aa55ReadPayload(offset, count) ==
    <<0, 1, 1, 10, 0, 3>> \o FormatHex(offset, 4) \o FormatHex(count, 2)

Aa55WritePayload(register, value) ==
    <<0, 2, 3, 9, 0, 5>> \o FormatHex(register, 4) \o <<0, 1>> \o FormatHex(value, 4)

Aa55WriteMultiPayload(offset, values) ==
    <<0, 2, 3, 9, 0, 11>> \o FormatHex(offset, 4) \o FormatHex(Len(values), 2)
        \o BytesToHex(values)

\* response_type of the read and of the write commands
ReadResponseType == <<0, 1, 9, 10>>
WriteResponseType == <<0, 2, 11, 9>>

\* A command is constructed from its payload hex string.
FrBuild(payload, response_type) ==
    /\ frStage = "start"
    /\ frStage' = "request"
    /\ frPayload' = (IF Len(payload) % 2 = 0 THEN BytesFromHex(payload) ELSE <<>>)
    /\ frRequest' = Aa55Request(payload)
    /\ frExpected' = response_type
    /\ UNCHANGED <<retries, rsVars, udpVars, tcpVars, frResponse, frValid>>

\* Aa55ReadCommand(offset, count)
FrReadCommand(offset, count) ==
    FrBuild(Aa55ReadPayload(offset, count), ReadResponseType)

\* Aa55WriteCommand(register, value)
FrWriteCommand(register, value) ==
    FrBuild(Aa55WritePayload(register, value), WriteResponseType)

\* Aa55WriteMultiCommand(offset, values)
FrWriteMultiCommand(offset, values) ==
    FrBuild(Aa55WriteMultiPayload(offset, values), WriteResponseType)

\* A response frame as the inverter lays it out: header, response type, length
\* byte, payload, and the two-byte big-endian sum of all of these mod 2^16.
LegacyFrame(rtype, payload) ==
    LET body == ResponseHeader \o rtype \o <<Len(payload)>> \o payload
        sum  == SumBytes(body) % 65536
    IN  body \o <<sum \div 256, sum % 256>>

\* What arrives for a command: a frame of the legacy layout, intact, cut short
\* to its first `keep` bytes, or with its last byte changed.
FrReceive(payload, damage, keep) ==
    /\ frStage = "request"
    /\ frStage' = "response"
    /\ LET frame == LegacyFrame(BytesFromHex(frExpected), payload)
       IN  frResponse' =
             CASE damage = "cut"  -> SubSeq(frame, 1, keep)
               [] damage = "flip" -> [frame EXCEPT ![Len(frame)] = (@ + 1) % 256]
               [] OTHER           -> frame
    /\ UNCHANGED <<retries, rsVars, udpVars, tcpVars, frPayload, frRequest, frExpected,
                   frValid>>

\* The command's validator is applied to the received bytes.
FrValidate ==
    /\ frStage = "response"
    /\ frStage' = "validated"
    /\ frValid' = ValidateResponse(frResponse, frExpected)
    /\ UNCHANGED <<retries, rsVars, udpVars, tcpVars, frPayload, frRequest, frExpected,
                   frResponse>>

FrInit ==
    /\ frStage = "start"
    /\ frPayload = <<>>
    /\ frRequest = [err |-> "none", bytes |-> <<>>]
    /\ frResponse = <<>>
    /\ frExpected = <<>>
    /\ frValid = "unset"

(***************************************************************************)
(* ProtocolResponse, and the trim_response / get_offset of the commands.   *)
(***************************************************************************)

\* Longest raw response, furthest register sought and largest read size the
\* response is exercised with.
MaxRawLen == 12
MaxSeek == 4
MaxReadSize == 5

\* First registers of the Modbus commands a response is attached to.
FirstAddresses == {0, 35100}

\* The raw response of n bytes: every byte differs from its neighbours, so a
\* slice taken at the wrong place is a different sequence.
RawBytes(n) == [i \in 1..n |-> (16 * i + n) % 256]

\* data[start:-fromEnd] (fromEnd > 0): Python clamps both ends of a slice to
\* the sequence, and an empty or inverted range gives b"".
SliceFromTo(data, start, fromEnd) ==
    LET lo == IF start < Len(data) THEN start ELSE Len(data)
        hi == IF Len(data) - fromEnd > 0 THEN Len(data) - fromEnd ELSE 0
    IN  IF lo < hi THEN SubSeq(data, lo + 1, hi) ELSE <<>>

\* Aa55ProtocolCommand.trim_response: raw_response[7:-2]
Aa55TrimResponse(raw_response) == SliceFromTo(raw_response, 7, 2)

\* A Modbus trim_response that strips the legacy header length.
ModbusTrimResponse_LegacyHeader(raw_response) == SliceFromTo(raw_response, 7, 2)

\* ModbusProtocolCommand.trim_response: raw_response[5:-2]
ModbusTrimResponse(raw_response) == SliceFromTo(raw_response, 5, 2)

\* ProtocolCommand.get_offset, which the legacy commands inherit.
GetOffset(address) == address

\* A Modbus get_offset that counts registers, not bytes.
ModbusGetOffset_PerRegister(first_address, address) == address - first_address

\* ModbusProtocolCommand.get_offset
ModbusGetOffset(first_address, address) == (address - first_address) * 2

\* ProtocolResponse.response_data
ResponseData(framing, raw_data) ==
    CASE framing = "aa55"   -> Aa55TrimResponse(raw_data)
      [] framing = "modbus" -> ModbusTrimResponse(raw_data)
      [] OTHER              -> raw_data

\* io.BytesIO.read(size) for size >= 0 with the cursor at pos: the bytes from
\* pos up to the end or to pos+size, none when pos is at or past the end.
BytesIORead(bytes, pos, size) ==
    LET stop == IF pos + size < Len(bytes) THEN pos + size ELSE Len(bytes)
    IN  IF pos < stop THEN SubSeq(bytes, pos + 1, stop) ELSE <<>>

\* ProtocolResponse(raw_data, command)
RsCreate(framing, first_address, raw_data) ==
    /\ rsStage = "start"
    /\ rsStage' = "created"
    /\ rsFraming' = framing
    /\ rsFirst' = first_address
    /\ rsRaw' = raw_data
    /\ rsBytes' = ResponseData(framing, raw_data)
    /\ rsPos' = 0
    /\ UNCHANGED <<retries, udpVars, tcpVars, frVars, rsAddress, rsSize, rsRead>>

\* seek(address): BytesIO.seek moves the cursor to any offset >= 0, also past
\* the end of the data.
RsSeek(address) ==
    /\ rsStage \in {"created", "read"}
    /\ rsStage' = "seeked"
    /\ rsAddress' = address
    /\ rsPos' = CASE rsFraming = "modbus" -> ModbusGetOffset(rsFirst, address)
                  [] rsFraming = "aa55"   -> GetOffset(address)
                  [] OTHER                -> address
    /\ UNCHANGED <<retries, udpVars, tcpVars, frVars, rsFraming, rsFirst, rsRaw,
                   rsBytes, rsSize, rsRead>>

\* read(size)
RsRead(size) ==
    /\ rsStage = "seeked"
    /\ rsStage' = "read"
    /\ rsSize' = size
    /\ rsRead' = BytesIORead(rsBytes, rsPos, size)
    /\ rsPos' = rsPos + Len(rsRead')
    /\ UNCHANGED <<retries, udpVars, tcpVars, frVars, rsFraming, rsFirst, rsRaw,
                   rsBytes, rsAddress>>

RsInit ==
    /\ rsStage = "start"
    /\ rsFraming = "none"
    /\ rsFirst = 0
    /\ rsRaw = <<>>
    /\ rsBytes = <<>>
    /\ rsPos = 0
    /\ rsAddress = 0
    /\ rsSize = 0
    /\ rsRead = <<>>

(***************************************************************************)
(* TcpInverterProtocol                                                     *)
(***************************************************************************)

\* tcpAttempts stops counting here (a call can loop without end).
AttemptCap == MaxRetries + 3

CountAttempt(n) == IF n < AttemptCap THEN n + 1 ELSE n

\* _close_transport, run when the future is in state f.
TcpCloseTransport(f) ==
    /\ tcpTransport' = "none"
    /\ tcpFuture' = CancelIfPending(f)

\* _send_request(command, response_future) on the open connection, with a
\* future just created for it.  A timer expires `timeout` after it was armed,
\* so only MaxTimers of them are outstanding: the oldest fires first.
TcpSendRequest(call) ==
    /\ Len(tcpTimers) < MaxTimers
    /\ tcpFuture' = "pending"
    /\ tcpFutCall' = call
    /\ tcpCommand' = call
    /\ tcpTimers' = Append(tcpTimers, call)

\* send_request entered (by execute, or by its own retry): _connect reuses an
\* open connection and otherwise suspends in create_connection.
TcpEnter(call) ==
    IF tcpTransport = "open"
    THEN /\ tcpPc' = "awaiting"
         /\ TcpSendRequest(call)
         /\ UNCHANGED tcpTransport
    ELSE /\ tcpPc' = "connecting"
         /\ UNCHANGED <<tcpTransport, tcpFuture, tcpFutCall, tcpCommand, tcpTimers>>

\* execute() -> send_request(command)
TcpSendRequestStart ==
    /\ tcpPc = "idle"
    /\ tcpCall < MaxRequests
    /\ tcpCall' = tcpCall + 1
    /\ tcpAttempts' = 1
    /\ tcpPrevOutcome' = tcpOutcome
    /\ tcpOutcome' = "none"
    /\ tcpOnlyRefused' = TRUE
    /\ TcpEnter(tcpCall + 1)
    /\ UNCHANGED <<retries, rsVars, udpVars, frVars, tcpRetry, tcpRetryAtAccept,
                   tcpInvalidState>>

\* _max_retries_reached, and execute() reading the failed future it returns.
TcpMaxRetriesReached ==
    /\ tcpTransport' = "none"
    /\ tcpFuture' = "maxretries"
    /\ tcpPc' = "idle"
    /\ tcpOutcome' = ExecuteOutcome("maxretries")
    /\ UNCHANGED <<tcpRetry, tcpAttempts, tcpFutCall, tcpCommand, tcpTimers>>

\* The `except` branches of send_request: try again while retries remain.
\* closes: the CancelledError branch closes the transport before it retries.
TcpRetryOrGiveUp(closes) ==
    IF tcpRetry < retries
    THEN /\ tcpRetry' = tcpRetry + 1
         /\ tcpAttempts' = CountAttempt(tcpAttempts)
         /\ tcpPc' = "connecting"
         /\ tcpTransport' = IF closes THEN "none" ELSE tcpTransport
         /\ UNCHANGED <<tcpFuture, tcpFutCall, tcpCommand, tcpTimers, tcpOutcome>>
    ELSE TcpMaxRetriesReached

\* create_connection returned; connection_made does nothing; send_request goes
\* on to create the future and send.
TcpConnected ==
    /\ tcpPc = "connecting"
    /\ tcpPc' = "awaiting"
    /\ tcpTransport' = "open"
    /\ TcpSendRequest(tcpCall)
    /\ UNCHANGED <<retries, rsVars, udpVars, frVars, tcpRetry, tcpCall, tcpAttempts,
                   tcpOutcome, tcpPrevOutcome, tcpOnlyRefused, tcpRetryAtAccept,
                   tcpInvalidState>>

\* create_connection raised ConnectionRefusedError.
TcpConnectRefused ==
    /\ tcpPc = "connecting"
    /\ TcpRetryOrGiveUp(FALSE)
    /\ UNCHANGED <<retries, rsVars, udpVars, frVars, tcpCall, tcpPrevOutcome,
                   tcpOnlyRefused, tcpRetryAtAccept, tcpInvalidState>>

\* create_connection raised another OSError: nothing catches it.
TcpConnectError ==
    /\ tcpPc = "connecting"
    /\ tcpPc' = "idle"
    /\ tcpOutcome' = ExecuteRaised("oserror")
    /\ UNCHANGED <<retries, rsVars, udpVars, frVars, tcpTransport, tcpRetry, tcpFuture,
                   tcpFutCall, tcpCommand, tcpTimers, tcpCall, tcpAttempts,
                   tcpPrevOutcome, tcpOnlyRefused, tcpRetryAtAccept,
                   tcpInvalidState>>

\* A data_received that resolves the future and leaves self._retry alone.
TcpOnAccepted_KeepRetry ==
    /\ tcpRetryAtAccept' = tcpRetry
    /\ tcpFuture' = "result"
    /\ UNCHANGED <<tcpTransport, tcpRetry>>

\* data_received, validator returned True.
TcpOnAccepted ==
    /\ tcpRetry' = 0
    /\ tcpRetryAtAccept' = tcpRetry
    /\ tcpFuture' = "result"
    /\ UNCHANGED tcpTransport

\* data_received, validator returned False.
TcpOnMalformed ==
    /\ TcpCloseTransport("rejected")
    /\ UNCHANGED <<tcpRetry, tcpRetryAtAccept>>

\* A data_received that also closes the connection on a NAK.
TcpOnRejected_Closes ==
    /\ TcpCloseTransport("rejected")
    /\ UNCHANGED <<tcpRetry, tcpRetryAtAccept>>

\* data_received, validator raised RequestRejectedException.
TcpOnRejected ==
    /\ tcpFuture' = "rejected"
    /\ UNCHANGED <<tcpTransport, tcpRetry, tcpRetryAtAccept>>

\* data_received(data): v is what self.command.validator(data) does.  On a
\* future that is already done set_result/set_exception raise
\* InvalidStateError out of the callback, and the loop closes the transport.
TcpDataReceived(v) ==
    /\ tcpTransport = "open"
    /\ IF tcpFuture = "pending"
       THEN /\ CASE v = "accept" -> TcpOnAccepted
                 [] v = "false"  -> TcpOnMalformed
                 [] OTHER        -> TcpOnRejected
            /\ UNCHANGED tcpInvalidState
       ELSE /\ tcpInvalidState' = TRUE
            /\ tcpTransport' = "closing"
            /\ tcpRetry' = IF v = "accept" THEN 0 ELSE tcpRetry
            /\ UNCHANGED <<tcpFuture, tcpRetryAtAccept>>
    /\ UNCHANGED <<retries, rsVars, udpVars, frVars, tcpPc, tcpFutCall, tcpCommand,
                   tcpTimers, tcpCall, tcpAttempts, tcpOutcome, tcpPrevOutcome,
                   tcpOnlyRefused>>

\* eof_received
TcpEofReceived ==
    /\ tcpTransport = "open"
    /\ TcpCloseTransport(tcpFuture)
    /\ UNCHANGED <<retries, rsVars, udpVars, frVars, tcpPc, tcpRetry, tcpFutCall,
                   tcpCommand, tcpTimers, tcpCall, tcpAttempts, tcpOutcome,
                   tcpPrevOutcome, tcpOnlyRefused, tcpRetryAtAccept,
                   tcpInvalidState>>

\* connection_lost(exc)
TcpConnectionLost ==
    /\ tcpTransport \in {"open", "closing"}
    /\ TcpCloseTransport(tcpFuture)
    /\ UNCHANGED <<retries, rsVars, udpVars, frVars, tcpPc, tcpRetry, tcpFutCall,
                   tcpCommand, tcpTimers, tcpCall, tcpAttempts, tcpOutcome,
                   tcpPrevOutcome, tcpOnlyRefused, tcpRetryAtAccept,
                   tcpInvalidState>>

\* _timeout_mechanism: the callback of the oldest outstanding timer.
TcpTimeoutMechanism ==
    /\ tcpTimers # <<>>
    /\ tcpTimers' = Tail(tcpTimers)
    /\ IF Done(tcpFuture)
       THEN /\ tcpRetry' = 0
            /\ UNCHANGED <<tcpTransport, tcpFuture>>
       ELSE /\ TcpCloseTransport(tcpFuture)
            /\ UNCHANGED tcpRetry
    /\ UNCHANGED <<retries, rsVars, udpVars, frVars, tcpPc, tcpFutCall, tcpCommand,
                   tcpCall, tcpAttempts, tcpOutcome, tcpPrevOutcome,
                   tcpOnlyRefused, tcpRetryAtAccept, tcpInvalidState>>

\* `await response_future` ends: send_request returns the future or passes its
\* exception on, except for a cancellation, which it retries.
TcpAwaitReturn ==
    /\ tcpPc = "awaiting"
    /\ Done(tcpFuture)
    /\ IF tcpFuture = "cancelled"
       THEN /\ TcpRetryOrGiveUp(TRUE)
            /\ tcpOnlyRefused' = FALSE
       ELSE /\ tcpPc' = "idle"
            /\ tcpOutcome' = ExecuteOutcome(tcpFuture)
            /\ UNCHANGED <<tcpTransport, tcpRetry, tcpFuture, tcpFutCall,
                           tcpCommand, tcpTimers, tcpAttempts, tcpOnlyRefused>>
    /\ UNCHANGED <<retries, rsVars, udpVars, frVars, tcpCall, tcpPrevOutcome,
                   tcpRetryAtAccept, tcpInvalidState>>

TcpInit ==
    /\ tcpPc = "idle"
    /\ tcpTransport = "none"
    /\ tcpRetry = 0
    /\ tcpFuture = "none"
    /\ tcpFutCall = 0
    /\ tcpCommand = 0
    /\ tcpTimers = <<>>
    /\ tcpCall = 0
    /\ tcpAttempts = 0
    /\ tcpOutcome = "none"
    /\ tcpPrevOutcome = "none"
    /\ tcpOnlyRefused = TRUE
    /\ tcpRetryAtAccept = 0
    /\ tcpInvalidState = FALSE

InitTcp ==
    /\ retries \in 0..MaxRetries
    /\ UdpInit
    /\ TcpInit
    /\ FrInit
    /\ RsInit

NextTcp ==
    \/ TcpSendRequestStart
    \/ TcpConnected
    \/ TcpConnectRefused
    \/ TcpConnectError
    \/ \E v \in Verdicts : TcpDataReceived(v)
    \/ TcpEofReceived
    \/ TcpConnectionLost
    \/ TcpTimeoutMechanism
    \/ TcpAwaitReturn

SpecTcp == InitTcp /\ [][NextTcp]_vars

\* The loop runs every due timer callback, resumes every ready coroutine, and
\* every connect attempt ends (it succeeds or fails).
FairSpecTcp ==
    /\ SpecTcp
    /\ WF_vars(TcpTimeoutMechanism)
    /\ WF_vars(TcpAwaitReturn)
    /\ WF_vars(TcpConnected \/ TcpConnectRefused)

TcpTypeOK ==
    /\ tcpPc \in {"idle", "connecting", "awaiting"}
    /\ tcpTransport \in {"none", "open", "closing"}
    /\ tcpRetry \in 0..MaxRetries
    /\ tcpFuture \in FutureStates
    /\ tcpAttempts \in 0..AttemptCap
    /\ Len(tcpTimers) <= MaxTimers
    /\ tcpOutcome \in {"none", "Response", "RequestFailed", "RequestRejected",
                       "MaxRetriesExceeded", "OSError"}

InitUdp ==
    /\ retries \in 0..MaxRetries
    /\ UdpInit
    /\ TcpInit
    /\ FrInit
    /\ RsInit

NextUdp ==
    \/ UdpSendRequestStart
    \/ \E e \in SocketErrors : UdpConnectFail(e)
    \/ UdpConnectionMade
    \/ UdpSendRequestResume
    \/ \E v \in Verdicts : UdpDatagramReceived(v)
    \/ \E e \in SocketErrors : UdpErrorReceived(e)
    \/ UdpConnectionLost
    \/ UdpRetryMechanism
    \/ UdpExecuteReturn

SpecUdp == InitUdp /\ [][NextUdp]_vars

\* The loop runs every due timer callback and resumes every ready coroutine.
FairSpecUdp ==
    /\ SpecUdp
    /\ WF_vars(UdpRetryMechanism)
    /\ WF_vars(UdpExecuteReturn)
    /\ WF_vars(UdpSendRequestResume)

\* The session used by two callers at once.
NextUdpOverlap ==
    \/ NextUdp
    \/ UdpSendRequestOverlap

SpecUdpOverlap == InitUdp /\ [][NextUdpOverlap]_vars

UdpTypeOK ==
    /\ retries \in 0..MaxRetries
    /\ udpPc \in {"idle", "connecting", "connected", "awaiting"}
    /\ udpTransport \in {"none", "open", "closing"}
    /\ udpEndpoint \in {"none", "open", "closed"}
    /\ udpRetry \in 0..(MaxRetries + 1)
    /\ udpFuture \in FutureStates
    /\ udpFutReq \in 0..MaxRequests
    /\ udpCommand \in 0..MaxRequests
    /\ udpReq \in 0..MaxRequests
    /\ udpOutcome \in {"none", "Response", "RequestFailed", "RequestRejected",
                       "MaxRetriesExceeded", "OSError"}
(***************************************************************************)
(* DatagramSession claims                                                  *)
(***************************************************************************)

\* The current request was handed to _send_request and execute() has returned.
UdpRequestOver ==
    /\ udpPc = "idle"
    /\ udpReq > 0
    /\ udpFutReq = udpReq

\* Every datagram so far got the verdict False from the validator.
UdpAllMalformed == \A i \in 1..Len(udpRecvd) : udpRecvd[i] = "false"

\* The request was driven by datagrams alone: the inverter answered before any
\* timer fired on the request, and the socket reported no error.
UdpAnsweredEveryTime ==
    /\ udpRecvd # <<>>
    /\ udpFired = 0
    /\ ~udpEnvErr

\* C1: with retries = R and a validator that returns False for every datagram,
\* a request answered after every transmission ends in MaxRetriesExceeded with
\* exactly R+1 datagrams transmitted.
C1_AlwaysMalformedExhaustsRetries ==
    (UdpRequestOver /\ udpAcceptAt = 0 /\ UdpAnsweredEveryTime /\ UdpAllMalformed)
        => (udpOutcome = "MaxRetriesExceeded" /\ udpSent = retries + 1)

\* C2: when the validator returns False for the first N-1 datagrams and accepts
\* the N-th (1 <= N <= R+1), a request answered after every transmission ends
\* with a Response and exactly N datagrams transmitted.
C2_AcceptsNthAfterNSends ==
    (/\ UdpRequestOver
     /\ udpAcceptAt \in 1..(retries + 1)
     /\ UdpAnsweredEveryTime
     /\ \A i \in 1..Len(udpRecvd) : udpRecvd[i] # "nak")
        => (udpOutcome = "Response" /\ udpSent = udpAcceptAt)

\* C3: the pending result of every request is eventually done.
C3_PendingEventuallyDone ==
    \A r \in 1..MaxRequests :
        (udpFuture = "pending" /\ udpFutReq = r) ~> (Done(udpFuture) /\ udpFutReq = r)

\* C3 witness: a request that no datagram answered was failed by the timers
\* after its last retry.
C3_Witness ==
    /\ udpFuture = "maxretries"
    /\ udpFired = retries + 1
    /\ retries > 0
    /\ udpReq = MaxRequests

\* C5: a request that sees no datagram and no transport error ends in
\* MaxRetriesExceeded after exactly R+1 transmissions, whatever timers of
\* earlier requests are still outstanding.
C5_SilenceExhaustsRetries ==
    (UdpRequestOver /\ udpRecvd = <<>> /\ ~udpEnvErr)
        => (udpOutcome = "MaxRetriesExceeded" /\ udpSent = retries + 1)

\* create_datagram_endpoint itself raised an OSError other than connection
\* refused: no future was created for the request.
UdpConnectRaisedOther == udpFutReq # udpReq /\ udpOutcome = "OSError"

\* C8: on every failure path (timeout, close, connection refused,
\* error_received, malformed response, NAK) an execute() that returns no
\* Response fails with one of RequestRejected, RequestFailed,
\* MaxRetriesExceeded.
C8_OnlyUniformErrors ==
    (udpPc = "idle" /\ udpReq > 0 /\ ~UdpConnectRaisedOther)
        => udpOutcome \in {"Response", "RequestRejected", "RequestFailed",
                           "MaxRetriesExceeded"}
(***************************************************************************)
(* StreamSession claims                                                    *)
(***************************************************************************)

\* C4: every send_request call ends: it returns a done future or raises.
C4_CallEventuallyReturns ==
    \A c \in 1..MaxRequests :
        (tcpPc # "idle" /\ tcpCall = c) ~> (tcpPc = "idle" /\ tcpCall = c)

\* C6: one send_request call makes at most R+1 connect+send attempts.
C6_AtMostRetriesPlusOneAttempts ==
    tcpAttempts <= retries + 1

\* C7: a call that ended with an accepted response leaves the retry counter
\* at 0, and a following call that meets only refused connects makes at least
\* R+1 connect attempts (the first and `retries` reconnects) before it fails
\* with MaxRetriesExceeded.
C7_SuccessRestoresRetryBudget ==
    /\ (tcpPc = "idle" /\ tcpOutcome = "Response") => tcpRetry = 0
    /\ (/\ tcpPc = "idle"
        /\ tcpOutcome = "MaxRetriesExceeded"
        /\ tcpPrevOutcome = "Response"
        /\ tcpOnlyRefused)
           => tcpAttempts >= retries + 1

\* C7 witness: a response was accepted while the counter was above 0, and the
\* next call exhausted its retries on refused connects alone.
C7_Witness ==
    /\ tcpPc = "idle"
    /\ tcpOutcome = "MaxRetriesExceeded"
    /\ tcpPrevOutcome = "Response"
    /\ tcpOnlyRefused
    /\ tcpRetryAtAccept > 0
    /\ tcpAttempts = retries + 1
InitFrame ==
    /\ retries = 0
    /\ UdpInit
    /\ TcpInit
    /\ FrInit
    /\ RsInit

NextFrame ==
    \/ \E offset \in Registers, count \in {1, 255} : FrReadCommand(offset, count)
    \/ \E register \in Registers, value \in Registers : FrWriteCommand(register, value)
    \/ \E offset \in Registers, n \in PayloadLens, b \in FillBytes :
           FrWriteMultiCommand(offset, Fill(n, b))
    \/ \E n \in PayloadLens, b \in FillBytes :
           \/ FrReceive(Fill(n, b), "none", 0)
           \/ FrReceive(Fill(n, b), "flip", 0)
           \/ \E keep \in {0, 6, 8} : FrReceive(Fill(n, b), "cut", keep)
    \/ FrValidate

SpecFrame == InitFrame /\ [][NextFrame]_vars

(***************************************************************************)
(* Legacy framing claims                                                   *)
(***************************************************************************)

\* The received bytes follow the legacy layout for the expected response type:
\* four header bytes, the type, a length byte L, L payload bytes, and the
\* big-endian sum mod 2^16 of all bytes before the checksum.
FrWellFormed ==
    /\ Len(frResponse) >= 9
    /\ Len(frResponse) = frResponse[7] + 9
    /\ SubSeq(frResponse, 5, 6) = BytesFromHex(frExpected)
    /\ 256 * frResponse[Len(frResponse) - 1] + frResponse[Len(frResponse)]
          = SumUpTo(frResponse, Len(frResponse) - 2) % 65536

\* C9: the validator returns True for every response of the legacy layout,
\* whatever its byte sum.
C9_WellFormedResponseAccepted ==
    (frStage = "validated" /\ FrWellFormed) => frValid = "True"

\* C10: building the request succeeds for every payload and gives the header
\* AA 55 C0 7F, the payload, and the big-endian sum mod 2^16 of both.
C10_RequestFramedWithChecksum ==
    frStage # "start" =>
        LET body == BytesFromHex(RequestHeaderHex) \o frPayload
            sum  == SumBytes(body) % 65536
        IN  /\ frRequest.err = "none"
            /\ frRequest.bytes = body \o <<sum \div 256, sum % 256>>

InitResponse ==
    /\ retries = 0
    /\ UdpInit
    /\ TcpInit
    /\ FrInit
    /\ RsInit

\* Seeks are to registers at or after the command's first one (offsets >= 0).
NextResponse ==
    \/ \E n \in 0..MaxRawLen :
           \/ RsCreate("aa55", 0, RawBytes(n))
           \/ RsCreate("none", 0, RawBytes(n))
           \/ \E first_address \in FirstAddresses :
                  RsCreate("modbus", first_address, RawBytes(n))
    \/ \E k \in 0..MaxSeek : RsSeek(rsFirst + k)
    \/ \E size \in 0..MaxReadSize : RsRead(size)

SpecResponse == InitResponse /\ [][NextResponse]_vars

(***************************************************************************)
(* Response claims                                                         *)
(***************************************************************************)

\* C11: on the response of a Modbus command with first register S and trimmed
\* payload P, seek(S + k) then read(n) returns P from index 2k up to
\* min(2k + n, len(P)) and leaves the cursor behind the bytes returned; with
\* 2k >= len(P) it returns no bytes.
C11_SeekReadReturnsRegisterBytes ==
    (rsStage = "read" /\ rsFraming = "modbus") =>
        LET k    == rsAddress - rsFirst
            upto == IF 2 * k + rsSize < Len(rsBytes) THEN 2 * k + rsSize
                    ELSE Len(rsBytes)
            m    == IF upto > 2 * k THEN upto - 2 * k ELSE 0
        IN  /\ rsRead = [i \in 1..m |-> rsBytes[2 * k + i]]
            /\ rsPos = 2 * k + Len(rsRead)
            /\ (2 * k >= Len(rsBytes) => rsRead = <<>>)

\* C11 witness: a read from a later register that the end of the payload cut
\* short.
C11_Witness ==
    /\ rsStage = "read"
    /\ rsFraming = "modbus"
    /\ rsAddress > rsFirst
    /\ rsFirst > 0
    /\ rsRead # <<>>
    /\ Len(rsRead) < rsSize

\* header bytes trim_response is said to strip
HeaderLen(framing) == IF framing = "aa55" THEN 7 ELSE 5

\* C12 as stated: for every raw response, also one shorter than header plus
\* checksum, the trimmed payload has len(raw) - headerLen - 2 bytes.
C12_TrimLengthForAllInputs ==
    (rsStage # "start" /\ rsFraming \in {"aa55", "modbus"}) =>
        Len(rsBytes) = Len(rsRaw) - HeaderLen(rsFraming) - 2

\* C12 amended: the trimmed payload has len(raw) - headerLen - 2 bytes when
\* the raw response has at least headerLen + 2 bytes, and is empty otherwise.
C12_TrimLengthOrEmpty ==
    (rsStage # "start" /\ rsFraming \in {"aa55", "modbus"}) =>
        IF Len(rsRaw) >= HeaderLen(rsFraming) + 2
        THEN /\ Len(rsBytes) = Len(rsRaw) - HeaderLen(rsFraming) - 2
             /\ \A i \in 1..Len(rsBytes) :
                    rsBytes[i] = rsRaw[HeaderLen(rsFraming) + i]
        ELSE rsBytes = <<>>

\* C12 witness: a Modbus response with a payload, and a legacy one too short
\* to hold header and checksum.
C12_Witness ==
    /\ rsStage # "start"
    /\ \/ rsFraming = "modbus" /\ Len(rsRaw) = 8 /\ Len(rsBytes) = 1
       \/ rsFraming = "aa55" /\ Len(rsRaw) = 8 /\ rsBytes = <<>>

(***************************************************************************)
(* Session claims: handlers, timers, close                                 *)
(***************************************************************************)

\* C13: when a datagram arrives for a pending request and the validator
\* returns False, the session increments the retry counter and resends the
\* same command, arms no new timer, keeps the transport open and leaves the
\* pending result pending.
C13_MalformedKeepsRequestPending ==
    [][(UdpDatagramReceived("false") /\ udpFuture = "pending")
        => /\ udpRetry' = udpRetry + 1
           /\ udpSent' = udpSent + 1
           /\ udpCommand' = udpCommand
           /\ udpTimers' = udpTimers
           /\ udpTransport' = "open"
           /\ udpFuture' = "pending"]_vars

\* C14 (DatagramSession): the timer of an earlier request that fires while a
\* later request is pending does not resend the later request, does not
\* change its retry counter, does not close its transport and does not
\* cancel or fail its pending result.
C14_StaleTimerLeavesRequestAlone ==
    [][(/\ udpTimers # <<>>
        /\ Head(udpTimers) # udpFutReq
        /\ udpFuture = "pending"
        /\ UdpRetryMechanism)
        => UNCHANGED <<udpSent, udpRetry, udpTransport, udpFuture>>]_vars

\* C14 (StreamSession): the same for the timeout timer of an earlier call.
C14_StaleTimeoutLeavesCallAlone ==
    [][(/\ tcpTimers # <<>>
        /\ Head(tcpTimers) # tcpFutCall
        /\ tcpFuture = "pending"
        /\ TcpTimeoutMechanism)
        => UNCHANGED <<tcpRetry, tcpTransport, tcpFuture>>]_vars

\* C15: in every reachable state of a session configured with retries = R the
\* retry counter satisfies 0 <= counter <= R.
C15_RetryCounterWithinBudget ==
    /\ 0 <= udpRetry
    /\ udpRetry <= retries

\* C15 (StreamSession): the same bound on the stream session's counter.
C15_TcpRetryCounterWithinBudget ==
    /\ 0 <= tcpRetry
    /\ tcpRetry <= retries

\* C16: no socket or timer callback sets a result or an error on a pending
\* result that is already done; in particular not when data arrives on a TCP
\* connection that was left open after a valid or NAK response.
C16_ResolvedExactlyOnce == ~tcpInvalidState

\* C17: data received for a pending request: an accepted response resolves
\* the result, sets the retry counter to 0 and leaves the connection open; a
\* NAK fails the result and leaves the connection open; a malformed response
\* fails the result with a rejection error and closes the connection.
C17_DataReceivedOutcomes ==
    [][\A v \in Verdicts :
        (tcpFuture = "pending" /\ TcpDataReceived(v))
        => CASE v = "accept" -> /\ tcpFuture' = "result"
                                /\ tcpRetry' = 0
                                /\ tcpTransport' = "open"
             [] v = "nak"    -> /\ tcpFuture' = "rejected"
                                /\ tcpTransport' = "open"
             [] OTHER        -> /\ tcpFuture' = "rejected"
                                /\ tcpTransport' = "none"]_vars

\* C17 witness: the caller is about to be handed a NAK, and the connection
\* is still open.
C17_Witness ==
    /\ tcpPc = "awaiting"
    /\ tcpFuture = "rejected"
    /\ tcpTransport = "open"
    /\ tcpCall = MaxRequests

\* C18: while a request's pending result is unresolved the session does not
\* replace its active command and pending result by those of a second
\* send_request, and no caller is left waiting on a result the session has
\* dropped.
C18_PendingRequestNotReplaced ==
    [][udpFuture = "pending"
        => /\ udpCommand' = udpCommand
           /\ udpFutReq' = udpFutReq
           /\ udpDisplaced' = 0]_vars

\* A handler step of the datagram session that is _close_transport and nothing
\* else: connection_lost, and a timer that finds the future done.
UdpCloseOnly ==
    \/ UdpConnectionLost
    \/ Done(udpFuture) /\ UdpRetryMechanism

\* The same for the stream session: eof_received and connection_lost.
TcpCloseOnly ==
    \/ TcpEofReceived
    \/ TcpConnectionLost

\* C19: closing while a pending result is outstanding clears the transport
\* handle and cancels the result; closing when the transport is already
\* closed or the result already done leaves the result's outcome as it is;
\* no close changes the retry counter or the active command.
C19_CloseIsIdempotent ==
    [][UdpCloseOnly
        => /\ udpTransport' = "none"
           /\ (udpFuture = "pending" => udpFuture' = "cancelled")
           /\ (udpFuture # "pending" => udpFuture' = udpFuture)
           /\ UNCHANGED <<udpRetry, udpCommand, udpFutReq, udpOutcome>>]_vars

\* C19 (StreamSession): the same for the stream session's close.
C19_TcpCloseIsIdempotent ==
    [][TcpCloseOnly
        => /\ tcpTransport' = "none"
           /\ (tcpFuture = "pending" => tcpFuture' = "cancelled")
           /\ (tcpFuture # "pending" => tcpFuture' = tcpFuture)
           /\ UNCHANGED <<tcpRetry, tcpCommand, tcpFutCall, tcpOutcome>>]_vars

\* C19 witness: the request was answered, the handler closed the transport,
\* and the request's timer then closed again without touching the result.
C19_Witness ==
    /\ udpFuture = "result"
    /\ udpTransport = "none"
    /\ udpSent > 0
    /\ udpTimers = <<>>

\* C20: the legacy validator returns False for every response whose length is
\* not lengthByte + 9, also for the empty response and every one shorter than
\* 7 bytes, and fails with no error other than a rejection.
C20_LegacyValidatorTotal ==
    frStage = "validated" =>
        /\ frValid \in {"True", "False"}
        /\ (Len(frResponse) < 7 \/ Len(frResponse) # frResponse[7] + 9)
               => frValid = "False"
====
